---- MODULE Spec2Model ----
(***************************************************************************)
(* A model of the Factorial time tracker: the CLI commands of index.ts,    *)
(* the session driver of factorial-automation.ts and the row locator,      *)
(* popup filler and verification of time-tracker.ts.  The web page is the  *)
(* environment: what it serves is drawn from small sets of DOM fixtures.   *)
(***************************************************************************)
EXTENDS Integers, Sequences, FiniteSets, TLC

\* ------------------------------------------------------------------ bounds
\* the largest number of attendance table rows of a page
MaxRows == 2
\* the largest number of input elements of a popup form
MaxInputs == 3

\* --------------------------------------------------------------- constants
\* const maxAttempts = 3 (navigation retry of login)
maxAttempts == 3

\* ------------------------------------------------------------------- texts
\* A text is a sequence of characters.

\* String.prototype.includes, and the substring tests of the selector engine
Includes(text, sub) ==
    \E i \in 1..(Len(text) - Len(sub) + 1) : SubSeq(text, i, i + Len(sub) - 1) = sub

Minus8h == <<"-", "8", "h">>
Minus4h == <<"-", "4", "h">>
Plain8h == <<"8", "h">>
Dash    == <<"-">>

\* ---------------------------------------------------------------- the page
\* The elements a row of the attendance table may show.
Elements ==
    { [tag |-> "span", cls |-> TRUE,  title |-> Minus8h, text |-> Minus8h],
      [tag |-> "span", cls |-> FALSE, title |-> <<>>,    text |-> Minus4h],
      [tag |-> "span", cls |-> FALSE, title |-> <<>>,    text |-> Plain8h],
      [tag |-> "span", cls |-> FALSE, title |-> Dash,    text |-> Dash],
      [tag |-> "div",  cls |-> FALSE, title |-> Minus8h, text |-> Minus8h] }

\* What the page shows in a row once hours were logged for it.
LoggedElement == [tag |-> "span", cls |-> FALSE, title |-> <<>>, text |-> Plain8h]

\* A cell is an element and where it stands.  tr: "data" is a TR holding the
\* attendance-row-toggle, "header" a TR without it, "none" no TR at all.
Cells ==
    [tr : {"data"}, el : Elements]
    \cup [tr : {"header"}, el : {e \in Elements : e.tag = "span" /\ Includes(e.text, Dash)
                                                  /\ Includes(e.text, <<"h">>)}]
    \cup [tr : {"none"}, el : {e \in Elements : e.cls}]

Pages == UNION { [1..n -> Cells] : n \in 0..MaxRows }

\* The calendar day a row stands for: row i shows day i of the view.
RowDate(i) == i

\* ------------------------------------------------------------ row location
missingHoursSelectors ==
    << [tag |-> "span",           op |-> "title=",   val |-> Minus8h],
       [tag |-> "span",           op |-> "has-text", val |-> Minus8h],
       [tag |-> "span._1jh4l1p2", op |-> "has-text", val |-> Minus8h],
       [tag |-> "*",              op |-> "title=",   val |-> Minus8h],
       [tag |-> "span",           op |-> "title*=",  val |-> Dash],
       [tag |-> "span",           op |-> "has-text", val |-> Dash] >>

\* whether element el matches CSS/text selector s
Matches(s, el) ==
    /\ CASE s.tag = "*"              -> TRUE
         [] s.tag = "span"           -> el.tag = "span"
         [] s.tag = "span._1jh4l1p2" -> el.tag = "span" /\ el.cls
    /\ CASE s.op = "title="   -> el.title = s.val
         [] s.op = "title*="  -> Includes(el.title, s.val)
         [] s.op = "has-text" -> Includes(el.text, s.val)

\* page.$$(selector): the rows whose element matches, in document order
RECURSIVE QueryAllFrom(_, _, _)
QueryAllFrom(page, s, i) ==
    IF i > Len(page) THEN <<>>
    ELSE (IF Matches(s, page[i].el) THEN <<i>> ELSE <<>>) \o QueryAllFrom(page, s, i + 1)

QueryAll(page, s) == QueryAllFrom(page, s, 1)

\* spanText && spanText.includes('-') && spanText.includes('h')
IsMissingHoursText(text) == Includes(text, <<"-">>) /\ Includes(text, <<"h">>)

\* The walk up to the parent TR and the toggle validation: the value left in
\* targetRow after the body of the inner loop ran for the element of row i
\* (0 is null).
ValidatedRow_NoToggleCheck(page, i) ==
    IF page[i].tr = "none" THEN 0 ELSE i

ValidatedRow(page, i) ==
    IF page[i].tr = "data" THEN i ELSE 0

\* row.querySelectorAll('span') of the verification: whether a span of the
\* row still has a text with '-' and 'h'
stillHasMissingHours(cell) ==
    cell.el.tag = "span" /\ IsMissingHoursText(cell.el.text)

\* ------------------------------------------------------------- the buttons
\* The buttons a page may show after a click, each with one word of text.
\* "AA~adir" is the add label as the source file spells it (its "A~" stands
\* for the two characters the file holds where the Spanish word has one),
\* "An~adir" is the Spanish word, "Aplicar" the submit label.

\* String.prototype.toLowerCase(), and the case folding of the :has-text()
\* and :text() selector engines
Lower(t) ==
    CASE t = "AA~adir" -> "aa~adir"
      [] t = "aA~adir" -> "aa~adir"
      [] t = "An~adir" -> "an~adir"
      [] t = "Aplicar" -> "aplicar"
      [] t = "Otro"    -> "otro"
      [] OTHER         -> t

\* the literals of the two text scans, as written in the source
addLabel == "aA~adir"
applyLabel == "aplicar"

Button(tag, text, submit, visible) ==
    [tag |-> tag, text |-> text, submit |-> submit, visible |-> visible]

\* the buttons the page may show after the toggle click
AddButtons ==
    { Button("button", "AA~adir", FALSE, TRUE),
      Button("button", "AA~adir", FALSE, FALSE),
      Button("div[role=button]", "AA~adir", FALSE, TRUE),
      Button("button", "An~adir", FALSE, TRUE) }

\* the buttons the page may show after the add click
ApplyButtons ==
    { Button("button", "Aplicar", FALSE, TRUE),
      Button("button", "Aplicar", FALSE, FALSE),
      Button("div[role=button]", "Aplicar", FALSE, TRUE),
      Button("button", "Otro", TRUE, TRUE),
      Button("button", "Otro", TRUE, FALSE),
      Button("button", "AA~adir", FALSE, TRUE) }

\* the largest number of buttons of a page
MaxButtons == 2

AddButtonLists == UNION { [1..n -> AddButtons] : n \in 0..MaxButtons }

ApplyButtonLists == UNION { [1..n -> ApplyButtons] : n \in 0..MaxButtons }

addButtonSelectors ==
    << [tag |-> "button",        op |-> "has-text", val |-> "AA~adir"],
       [tag |-> "button",        op |-> "text",     val |-> "AA~adir"],
       [tag |-> "[role=button]", op |-> "has-text", val |-> "AA~adir"],
       [tag |-> "button",        op |-> "contains", val |-> "AA~adir"] >>

applyButtonSelectors ==
    << [tag |-> "button",        op |-> "has-text", val |-> "Aplicar"],
       [tag |-> "button",        op |-> "text",     val |-> "Aplicar"],
       [tag |-> "[role=button]", op |-> "has-text", val |-> "Aplicar"],
       [tag |-> "button",        op |-> "submit",   val |-> ""] >>

\* whether button b matches selector s; :contains() is no selector of the
\* engine, the query throws and matches nothing
MatchesButton(s, b) ==
    /\ CASE s.tag = "button"        -> b.tag = "button"
         [] s.tag = "[role=button]" -> b.tag = "div[role=button]"
    /\ CASE s.op \in {"has-text", "text"} -> Lower(b.text) = Lower(s.val)
         [] s.op = "submit"               -> b.submit
         [] s.op = "contains"             -> FALSE

\* page.$(selector): the first matching button in document order, 0 is null
RECURSIVE QueryButtonFrom(_, _, _)
QueryButtonFrom(bs, s, i) ==
    IF i > Len(bs) THEN 0
    ELSE IF MatchesButton(s, bs[i]) THEN i
    ELSE QueryButtonFrom(bs, s, i + 1)

QueryButton(bs, s) == QueryButtonFrom(bs, s, 1)

\* a scan that takes the first button, whatever its text
RECURSIVE TextScanFrom_AnyText(_, _, _)
TextScanFrom_AnyText(bs, label, i) ==
    IF i > Len(bs) THEN 0
    ELSE IF bs[i].tag = "button" THEN i
    ELSE TextScanFrom_AnyText(bs, label, i + 1)

\* the scan of page.$$('button') for a text that includes the label
RECURSIVE TextScanFrom(_, _, _)
TextScanFrom(bs, label, i) ==
    IF i > Len(bs) THEN 0
    ELSE IF bs[i].tag = "button" /\ Lower(bs[i].text) = label THEN i
    ELSE TextScanFrom(bs, label, i + 1)

\* page.waitForSelector(selector, {timeout}): the first match once it is
\* visible; 0 when the wait times out (the throw is caught by the loop)
waitForSelector(bs, s) ==
    LET e == QueryButton(bs, s) IN IF e # 0 /\ bs[e].visible THEN e ELSE 0

\* the loop over addButtonSelectors, then the text scan
RECURSIVE AddLoop(_, _)
AddLoop(bs, k) ==
    IF k > Len(addButtonSelectors) THEN 0
    ELSE LET e == waitForSelector(bs, addButtonSelectors[k])
         IN IF e # 0 THEN e ELSE AddLoop(bs, k + 1)

FindAddButton(bs) ==
    LET e == AddLoop(bs, 1) IN IF e # 0 THEN e ELSE TextScanFrom(bs, addLabel, 1)

\* the loop over applyButtonSelectors: applyButton keeps the result of the
\* last query when no selector gave a visible button
RECURSIVE ApplyLoop(_, _, _)
ApplyLoop(bs, k, last) ==
    IF k > Len(applyButtonSelectors) THEN last
    ELSE LET e == QueryButton(bs, applyButtonSelectors[k])
         IN IF e # 0 /\ bs[e].visible THEN e ELSE ApplyLoop(bs, k + 1, e)

FindApplyButton(bs) ==
    LET e == ApplyLoop(bs, 1, 0) IN IF e # 0 THEN e ELSE TextScanFrom(bs, applyLabel, 1)

\* ---------------------------------------------------------- the popup form
\* The input elements of the popup, in document order.  A placeholder is a
\* sequence of words; value is what the input holds.
Inputs ==
    [type : {"time"}, placeholder : {<<>>}, visible : BOOLEAN, value : {"empty"}]
    \cup [type : {"text"}, placeholder : {<<>>, <<"tipo">>, <<"inicio">>, <<"fin">>},
          visible : {TRUE}, value : {"empty"}]
    \cup [type : {"text"}, placeholder : {<<"inicio">>}, visible : {FALSE},
          value : {"empty"}]

Forms == UNION { [1..n -> Inputs] : n \in 0..MaxInputs }

workTypeSelectors ==
    << [tag |-> "select",          op |-> "any",           val |-> <<>>],
       [tag |-> "[role=combobox]", op |-> "any",           val |-> <<>>],
       [tag |-> "input",           op |-> "placeholder*=", val |-> <<"tipo">>],
       [tag |-> "input",           op |-> "placeholder*=", val |-> <<"work">>],
       [tag |-> "input",           op |-> "placeholder*=", val |-> <<"category">>] >>

startTimeSelectors ==
    << [tag |-> "input", op |-> "placeholder*=", val |-> <<"inicio">>],
       [tag |-> "input", op |-> "placeholder*=", val |-> <<"start">>],
       [tag |-> "input", op |-> "name*=",        val |-> <<"start">>],
       [tag |-> "input", op |-> "id*=",          val |-> <<"start">>] >>

endTimeSelectors ==
    << [tag |-> "input", op |-> "placeholder*=", val |-> <<"fin">>],
       [tag |-> "input", op |-> "placeholder*=", val |-> <<"end">>],
       [tag |-> "input", op |-> "name*=",        val |-> <<"end">>],
       [tag |-> "input", op |-> "id*=",          val |-> <<"end">>] >>

\* whether input element inp matches selector s (the inputs of the fixtures
\* carry no name and no id, and the popup holds no select and no combobox)
MatchesInput(s, inp) ==
    /\ s.tag = "input"
    /\ CASE s.op = "placeholder*=" -> Includes(inp.placeholder, s.val)
         [] s.op = "type="         -> inp.type = s.val
         [] s.op = "any"           -> TRUE
         [] OTHER                  -> FALSE

\* page.$$(selector) on the inputs: the matching indices in document order
RECURSIVE QueryInputsFrom(_, _, _)
QueryInputsFrom(form, s, i) ==
    IF i > Len(form) THEN <<>>
    ELSE (IF MatchesInput(s, form[i]) THEN <<i>> ELSE <<>>)
         \o QueryInputsFrom(form, s, i + 1)

QueryInputs(form, s) == QueryInputsFrom(form, s, 1)

\* page.$(selector) on the inputs: the first match, 0 is null
QueryInput(form, s) ==
    LET all == QueryInputs(form, s) IN IF all = <<>> THEN 0 ELSE all[1]

\* for (const selector of selectors) { element = page.$(selector);
\*   if (element && isVisible) { ...; break } }: the element acted on, or 0
RECURSIVE FirstVisible(_, _, _)
FirstVisible(form, selectors, k) ==
    IF k > Len(selectors) THEN 0
    ELSE LET e == QueryInput(form, selectors[k])
         IN IF e # 0 /\ form[e].visible THEN e
            ELSE FirstVisible(form, selectors, k + 1)

\* the work type step: 'Trabajo' is typed into the first visible match
SetWorkType(form) ==
    LET e == FirstVisible(form, workTypeSelectors, 1)
    IN IF e = 0 THEN form ELSE [form EXCEPT ![e].value = "Trabajo"]

timeInputsOf(form) == QueryInputs(form, [tag |-> "input", op |-> "type=", val |-> "time"])
allInputsOf(form)  == QueryInputs(form, [tag |-> "input", op |-> "any", val |-> <<>>])

\* which of the three input-discovery strategies the if / else if / else takes
FillStrategy_GenericFirst(form) ==
    IF Len(allInputsOf(form)) >= 2 THEN 2
    ELSE IF Len(timeInputsOf(form)) >= 2 THEN 1
    ELSE 3

FillStrategy(form) ==
    IF Len(timeInputsOf(form)) >= 2 THEN 1
    ELSE IF Len(allInputsOf(form)) >= 2 THEN 2
    ELSE 3

\* element.click(); element.fill(v) on inputs a then b: a click on an input
\* that is not visible times out and throws.  The result is the form, the
\* fills made in order, and whether the step threw.
FillPair_Swapped(form, a, b, entry) ==
    IF ~form[a].visible
    THEN [form |-> form, writes |-> <<>>, threw |-> TRUE]
    ELSE LET f1 == [form EXCEPT ![a].value = entry.endTime]
         IN IF ~form[b].visible
            THEN [form |-> f1, writes |-> << <<a, entry.endTime>> >>, threw |-> TRUE]
            ELSE [form   |-> [f1 EXCEPT ![b].value = entry.startTime],
                  writes |-> << <<a, entry.endTime>>, <<b, entry.startTime>> >>,
                  threw  |-> FALSE]

FillPair(form, a, b, entry) ==
    IF ~form[a].visible
    THEN [form |-> form, writes |-> <<>>, threw |-> TRUE]
    ELSE LET f1 == [form EXCEPT ![a].value = entry.startTime]
         IN IF ~form[b].visible
            THEN [form |-> f1, writes |-> << <<a, entry.startTime>> >>, threw |-> TRUE]
            ELSE [form   |-> [f1 EXCEPT ![b].value = entry.endTime],
                  writes |-> << <<a, entry.startTime>>, <<b, entry.endTime>> >>,
                  threw  |-> FALSE]

\* the last resort: the start selectors, then the end selectors; a miss is
\* only logged ("Time filling incomplete") and nothing is thrown
FillBySelectors(form, entry) ==
    LET s  == FirstVisible(form, startTimeSelectors, 1)
        f1 == IF s = 0 THEN form ELSE [form EXCEPT ![s].value = entry.startTime]
        w1 == IF s = 0 THEN <<>> ELSE << <<s, entry.startTime>> >>
        e  == FirstVisible(f1, endTimeSelectors, 1)
        f2 == IF e = 0 THEN f1 ELSE [f1 EXCEPT ![e].value = entry.endTime]
        w2 == IF e = 0 THEN w1 ELSE Append(w1, <<e, entry.endTime>>)
    IN [form |-> f2, writes |-> w2, threw |-> FALSE,
        startFilled |-> s # 0, endFilled |-> e # 0]

\* the fill of the start and end time of fillFactorialPopup
FillTimes(form, entry) ==
    LET ti == timeInputsOf(form)
        ai == allInputsOf(form)
    IN CASE FillStrategy(form) = 1 -> FillPair(form, ti[1], ti[2], entry)
         [] FillStrategy(form) = 2 -> FillPair(form, ai[1], ai[2], entry)
         [] OTHER                  -> FillBySelectors(form, entry)

\* ------------------------------------------------------------- the session
\* What the login page shows to isLoggedIn: a logged-in marker of the list,
\* and the kind of the current URL ("login": contains /login, "signin":
\* contains /signin, "app": another URL of factorialhr.com, "other").
PageStates == [indicator : BOOLEAN, url : {"login", "signin", "app", "other"}]

isLoggedIn_AnyOtherUrl(st) ==
    IF st.indicator THEN TRUE
    ELSE st.url \notin {"login", "signin"}

isLoggedIn(st) ==
    IF st.indicator THEN TRUE
    ELSE IF st.url \in {"login", "signin"} THEN FALSE
    ELSE st.url = "app"

\* What the site serves during one login(): whether an email input, a
\* password input and a submit button are found by their selector lists, the
\* page before and after the credentials are submitted, and whether an
\* error element is shown.
LoginPages ==
    [email : BOOLEAN, password : BOOLEAN, button : BOOLEAN, error : BOOLEAN,
     pre : PageStates, post : PageStates]

\* what the body of the loop over errorSelectors throws: an error with the
\* text of the error element ("Invalid credentials") when a selector finds
\* one, "none" otherwise
ErrorElementThrow(lp) ==
    IF lp.error THEN "throw: Login failed: Invalid credentials" ELSE "none"

\* catch (e) { } of the body of that loop: what leaves the try statement
Caught(thrown) == "none"

\* the loop over errorSelectors and the throw after it: the throw of the
\* body is inside the try of the loop, so it is caught there
ErrorScan(lp) ==
    LET t == Caught(ErrorElementThrow(lp))
    IN IF t # "none" THEN t ELSE "throw: Login failed - please check credentials"

\* login() after the navigation succeeded: "true" is return true, "false"
\* would be return false, every other value is the error thrown
LoginResult_ReturnsFalse(lp) ==
    IF ~lp.email
    THEN IF isLoggedIn(lp.pre) THEN "true" ELSE "throw: no email input"
    ELSE IF ~lp.password THEN "throw: no password input"
    ELSE IF isLoggedIn(lp.post) THEN "true"
    ELSE "false"

LoginResult(lp) ==
    IF ~lp.email
    THEN IF isLoggedIn(lp.pre) THEN "true" ELSE "throw: no email input"
    ELSE IF ~lp.password THEN "throw: no password input"
    ELSE IF isLoggedIn(lp.post) THEN "true"
    ELSE ErrorScan(lp)

\* attempts++ of the navigation retry loop
NextAttempt_NoIncrement(a) == a

NextAttempt(a) == a + 1

\* validateConfig(): the errors collected, empty when it does not throw
validateConfig_EmailOnly(c) ==
    IF c.email = "" THEN <<"FACTORIAL_EMAIL is required">> ELSE <<>>

validateConfig(c) ==
    (IF c.email = "" THEN <<"FACTORIAL_EMAIL is required">> ELSE <<>>)
    \o (IF c.password = "" THEN <<"FACTORIAL_PASSWORD is required">> ELSE <<>>)

\* ------------------------------------------------------------ the commands
\* A date is the text given to --date: its format and the day it names.
Today == [fmt |-> "YYYY-MM-DD", day |-> 1]

CliDates ==
    { [fmt |-> "YYYY-MM-DD", day |-> 1],
      [fmt |-> "YYYY-MM-DD", day |-> 2],
      [fmt |-> "DD/MM/YYYY", day |-> 1] }

\* A command: its name, --date, --start and --end ("default" when the option
\* is not given, log-any and login have none) and the global --verbose.
Command(name, date, start, end, verbose) ==
    [name |-> name, date |-> date, startTime |-> start, endTime |-> end,
     verbose |-> verbose]

Commands ==
    { Command("login",     Today, "default", "default", FALSE),
      Command("log-today", Today, "default", "default", FALSE),
      Command("log-any",   Today, "default", "default", FALSE) }
    \cup { Command("log-custom", d, "08:00", "16:00", FALSE) : d \in CliDates }

\* the commands given with --verbose
VerboseCommands ==
    { Command("login", Today, "default", "default", TRUE),
      Command("log-any", Today, "default", "default", TRUE) }

DebugCommands == { Command("debug", Today, "default", "default", FALSE) }

WeekCommands ==
    { Command("log-week", Today, "08:00", "16:00", FALSE),
      Command("log-week", Today, "default", "default", FALSE) }

\* ------------------------------------------------------- the configuration
\* process.env: a variable is "unset" (undefined) or holds a string
Envs ==
    { e \in [FACTORIAL_EMAIL    : {"unset", "", "me@example.com"},
             FACTORIAL_PASSWORD : {"unset", "", "secret"},
             HEADLESS           : {"unset", "true", "false"},
             WORK_START_TIME    : {"unset", "08:30"},
             WORK_END_TIME      : {"unset", "16:30"},
             DEFAULT_START_TIME : {"unset", "10:00"},
             DEFAULT_END_TIME   : {"unset", "18:00"},
             LOG_LEVEL          : {"unset", "warn", "debug"}] :
        /\ (e.WORK_START_TIME = "unset") = (e.WORK_END_TIME = "unset")
        /\ (e.DEFAULT_START_TIME = "unset") = (e.DEFAULT_END_TIME = "unset") }

\* process.env.X || d: an undefined or empty value gives the default
OrDefault(v, d) == IF v \in {"unset", ""} THEN d ELSE v

\* process.env.HEADLESS !== 'false'
HeadlessOf(v) == v # "false"

\* the variables config.workHours reads for the default start and end time
WorkHoursOf(e) ==
    [startTime |-> OrDefault(e.DEFAULT_START_TIME, "09:00"),
     endTime   |-> OrDefault(e.DEFAULT_END_TIME, "17:00")]

\* the config object, built when the module is loaded
config(e) ==
    [email            |-> OrDefault(e.FACTORIAL_EMAIL, ""),
     password         |-> OrDefault(e.FACTORIAL_PASSWORD, ""),
     headless         |-> HeadlessOf(e.HEADLESS),
     defaultStartTime |-> WorkHoursOf(e).startTime,
     defaultEndTime   |-> WorkHoursOf(e).endTime,
     level            |-> OrDefault(e.LOG_LEVEL, "info")]

\* the environments with nothing set but, possibly, the credentials
SampleEnvs ==
    { e \in Envs : /\ e.FACTORIAL_EMAIL # "" /\ e.FACTORIAL_PASSWORD # ""
                   /\ e.HEADLESS = "unset" /\ e.WORK_START_TIME = "unset"
                   /\ e.DEFAULT_START_TIME = "unset" /\ e.LOG_LEVEL = "unset" }

\* ---------------------------------------------------------------- the week
\* A clock is what new Date() gives: the local calendar day (a day number,
\* the days 7, 14, ... are Sundays), the local hour, and the offset of the
\* local time zone from UTC in hours.
DaysOfWeek == 7
WorkDays == 5
HoursOfDay == 24

Clocks ==
    [day : DaysOfWeek..(2 * DaysOfWeek - 1), hour : {0, 12, 23}, offset : {-5, 0, 2}]

\* Date.prototype.getDay(): 0 is Sunday
getDay(d) == d % DaysOfWeek

\* toISOString().split('T')[0] of the local day d at the hour of the
\* clock: the calendar day in UTC
RECURSIVE FloorDiv(_, _)
FloorDiv(a, b) == IF a < 0 THEN FloorDiv(a + b, b) - 1 ELSE a \div b

IsoDate(d, c) ==
    [fmt |-> "YYYY-MM-DD", day |-> d + FloorDiv(c.hour - c.offset, HoursOfDay)]

\* startOfWeek.setDate(today.getDate() - dayOfWeek + (dayOfWeek === 0 ? -6 : 1))
startOfWeek(c) ==
    LET dayOfWeek == getDay(c.day)
    IN c.day - dayOfWeek + (IF dayOfWeek = 0 THEN -6 ELSE 1)

\* getCurrentWeekEntries(): the five entries from startOfWeek on, with the
\* default times of the configuration
getCurrentWeekEntries(c, conf) ==
    [i \in 1..WorkDays |->
        [date      |-> IsoDate(startOfWeek(c) + (i - 1), c),
         startTime |-> conf.defaultStartTime,
         endTime   |-> conf.defaultEndTime]]

\* a Wednesday at noon, UTC
SampleClocks == { [day |-> DaysOfWeek + 3, hour |-> 12, offset |-> 0] }

\* ---------------------------------------------------------------- the state
VARIABLES
    pc,          \* the statement the command is at
    cmd,         \* the subcommand and its options
    env,         \* process.env
    cfg,         \* the config object, built from process.env at load
    loggerLevel, \* the level the logger was created with
    clock,       \* the date and time of the run
    headless,    \* the launch option: "none", "headless" or "headed"
    error,       \* the lines of the error caught by the command, <<>> is none
    site,        \* the login page login() saw, <<>> before
    calls,       \* the entries passed to logWorkHours so far
    successCount,\* log-week: the entries logged successfully
    browser,     \* "none", "open" (initialize() launched it) or "closed"
    exitCode,    \* -1 while the process runs, then its exit code
    attempts,    \* login(): navigation attempts made
    navigationSuccess, \* login(): whether an attempt reached the site
    page,        \* the attendance table as served
    sel,         \* row location: index into missingHoursSelectors
    idx,         \* row location: index into the matches of selector sel
    targetRow,   \* handleFactorialTimeEntry: the row kept, 0 is null
    clicks,      \* the clicks made: rows toggled, add clicks, submit clicks
    form,        \* the inputs of the popup
    writes,      \* the fills of a start or end time made, in order
    buttons,     \* the buttons the page shows since the last click
    stale,       \* whether the submit click reloaded the page (row handle gone)
    handled,     \* result of handleFactorialTimeEntry: "none", "true", "false"
    logged       \* result of logWorkHours / logAnyMissingHours

vars == << pc, cmd, env, cfg, loggerLevel, clock, headless, error, site, calls,
           successCount, browser, exitCode, attempts, navigationSuccess, page, sel,
           idx, targetRow, clicks, buttons, form, writes, stale, handled, logged >>

\* what is fixed when the process starts
setup == << cmd, cfg, loggerLevel, clock >>

\* the variables of the command and of the session
cli == << env, headless, error, site, browser, exitCode, attempts,
         navigationSuccess >>

\* the variables of handleFactorialTimeEntry and of the page
track == << page, sel, idx, targetRow, clicks, buttons, form, writes, stale, handled,
           logged >>

InitFrom(commands, envs, clocks) ==
    /\ pc = "preAction"
    /\ cmd \in commands
    /\ env \in envs
    /\ cfg = config(env)
    /\ loggerLevel = cfg.level
    /\ clock \in clocks
    /\ headless = "none"
    /\ error = <<>>
    /\ site = <<>>
    /\ calls = <<>>
    /\ successCount = 0
    /\ browser = "none"
    /\ exitCode = -1
    /\ attempts = 0
    /\ navigationSuccess = FALSE
    /\ page = <<>>
    /\ sel = 1
    /\ idx = 1
    /\ targetRow = 0
    /\ clicks = [toggle |-> <<>>, add |-> 0, submit |-> 0]
    /\ buttons = <<>>
    /\ form = <<>>
    /\ writes = <<>>
    /\ stale = FALSE
    /\ handled = "none"
    /\ logged = "none"

InitWith(commands) == InitFrom(commands, SampleEnvs, SampleClocks)

\* the value of --start / --end: the default of the option is
\* config.workHours.defaultStartTime / defaultEndTime
OptionOr(v, d) == IF v = "default" THEN d ELSE v

\* log-week: the entries of the week with the times of the options
updatedEntries ==
    LET weekEntries == getCurrentWeekEntries(clock, cfg)
    IN [i \in 1..WorkDays |->
           [weekEntries[i] EXCEPT !.startTime = OptionOr(cmd.startTime, cfg.defaultStartTime),
                                  !.endTime   = OptionOr(cmd.endTime, cfg.defaultEndTime)]]

\* the entry of the running call: built by the command from its options, by
\* logAnyMissingHours from the configuration, or taken from the week
Entry ==
    IF cmd.name = "log-week"
    THEN updatedEntries[IF calls = <<>> THEN 1 ELSE Len(calls)]
    ELSE [date      |-> cmd.date,
          startTime |-> OptionOr(cmd.startTime, cfg.defaultStartTime),
          endTime   |-> OptionOr(cmd.endTime, cfg.defaultEndTime)]

\* process.exit(1): the process ends at once, and the finally block of the
\* action is not run
ProcessExit1 ==
    /\ pc' = "exited"
    /\ exitCode' = 1

\* an error thrown to the catch (error) { console.error(...);
\* process.exit(1) } of the action
Throw(lines) ==
    /\ error' = lines
    /\ ProcessExit1

\* ------------------------------------------------------- the CLI and login
\* the preAction hook: --verbose sets LOG_LEVEL in process.env; the config
\* object and the logger exist since the modules were loaded
PreAction ==
    /\ pc = "preAction"
    /\ env' = IF cmd.verbose THEN [env EXCEPT !.LOG_LEVEL = "debug"] ELSE env
    /\ pc' = "validateConfig"
    /\ UNCHANGED << setup, headless, error, site, browser, exitCode, attempts, navigationSuccess,
                    calls,
                    successCount, track >>

ValidateConfig ==
    /\ pc = "validateConfig"
    /\ IF validateConfig(cfg) = <<>>
       THEN /\ pc' = IF cmd.name = "debug" THEN "forceHeaded" ELSE "initialize"
            /\ exitCode' = exitCode
            /\ error' = error
       ELSE Throw(<<"Configuration errors:">> \o validateConfig(cfg))
    /\ UNCHANGED << setup, env, headless, site, browser, attempts, navigationSuccess,
                    calls,
                    successCount, track >>

\* debug: process.env.HEADLESS = 'false' before initialize(); the config
\* object was built when the module was loaded and is not read again
ForceHeaded ==
    /\ pc = "forceHeaded"
    /\ env' = [env EXCEPT !.HEADLESS = "false"]
    /\ pc' = "initialize"
    /\ UNCHANGED << setup, headless, error, site, browser, exitCode, attempts,
                    navigationSuccess, calls, successCount, track >>

\* chromium.launch({ headless: config.browser.headless, ... })
Initialize ==
    /\ pc = "initialize"
    /\ \E launched \in BOOLEAN :
         IF launched
         THEN /\ browser' = "open"
              /\ headless' = IF cfg.headless THEN "headless" ELSE "headed"
              /\ pc' = "login"
              /\ exitCode' = exitCode
              /\ error' = error
         ELSE /\ browser' = browser
              /\ headless' = headless
              /\ Throw(<<"Failed to launch the browser">>)
    /\ UNCHANGED << setup, env, site, attempts, navigationSuccess,
                    calls, successCount, track >>

\* the head of while (!navigationSuccess && attempts < maxAttempts) and
\* attempts++; the loop is left for the form discovery when the guard fails
LoginLoop ==
    /\ pc = "login"
    /\ IF ~navigationSuccess /\ attempts < maxAttempts
       THEN attempts' = NextAttempt(attempts) /\ pc' = "loginGoto"
       ELSE attempts' = attempts /\ pc' = "loginForm"
    /\ UNCHANGED << setup, env, headless, error, site, browser, exitCode,
                    navigationSuccess, calls, successCount, track >>

\* if (attempts === maxAttempts) throw, in the catch of one attempt
LastAttempt_Never(a) == FALSE

LastAttempt(a) == a = maxAttempts

\* page.goto and waitForLoadState of one attempt: navigationSuccess = true
\* ends the loop at its head, a failure of the last attempt throws, another
\* one waits and goes back to the head of the loop
LoginGoto ==
    /\ pc = "loginGoto"
    /\ \E navigated \in BOOLEAN :
         IF navigated
         THEN /\ navigationSuccess' = TRUE
              /\ pc' = "login"
              /\ exitCode' = exitCode
              /\ error' = error
         ELSE /\ navigationSuccess' = navigationSuccess
              /\ IF LastAttempt(attempts)
                 THEN Throw(<<"Failed to navigate to Factorial after 3 attempts">>)
                 ELSE pc' = "login" /\ exitCode' = exitCode /\ error' = error
    /\ UNCHANGED << setup, env, headless, site, browser, attempts, calls,
                    successCount, track >>

\* login() from the form discovery on, on one of the login pages given, and
\* the test of its result by the command: on true the login command prints
\* its result and the others go on; on false the login command prints
\* 'Login failed' and exits with 1, the others throw Error('Login failed');
\* an error thrown by login() goes to the catch of the command
LoginForm(sites) ==
    /\ pc = "loginForm"
    /\ \E lp \in sites :
         /\ site' = <<lp>>
         /\ LET loginSuccess == LoginResult(lp)
            IN CASE loginSuccess = "true" ->
                      /\ pc' = CASE cmd.name = "login" -> "cleanup"
                                 [] cmd.name = "debug" -> "debugPage"
                                 [] OTHER              -> "navigateToTimeTracking"
                      /\ exitCode' = exitCode
                      /\ error' = error
                 [] loginSuccess = "false" ->
                      IF cmd.name = "login"
                      THEN error' = error /\ ProcessExit1
                      ELSE Throw(<<"Login failed">>)
                 [] OTHER -> Throw(<<loginSuccess>>)
    /\ UNCHANGED << setup, env, headless, browser, attempts, navigationSuccess,
                    calls, successCount, track >>

\* navigateToTimeTracking(): a link or a direct URL is found, or it throws
NavigateToTimeTracking ==
    /\ pc = "navigateToTimeTracking"
    /\ \E found \in BOOLEAN :
         IF found THEN pc' = "logWorkHours" /\ exitCode' = exitCode /\ error' = error
         ELSE Throw(<<"Could not navigate to time tracking page">>)
    /\ UNCHANGED << setup, env, headless, site, browser, attempts, navigationSuccess,
                    calls,
                    successCount, track >>

\* debug: one of the attendance URLs is reached, the page is listed and kept
\* open for five minutes, then the finally block runs; or no URL is reached
\* and the action throws
DebugInspect ==
    /\ pc = "debugPage"
    /\ \E reached \in BOOLEAN :
         IF reached THEN pc' = "cleanup" /\ exitCode' = exitCode /\ error' = error
         ELSE Throw(<<"Could not navigate to any attendance page">>)
    /\ UNCHANGED << setup, env, headless, site, browser, attempts,
                    navigationSuccess, calls, successCount, track >>

\* ------------------------------------------------------------ time tracker
\* an exception on its way out of a function
ThrownError == "throw"

\* catch (error) { logger.error(...); return false }, the last statement of
\* logWorkHours, logAnyMissingHours, handleFactorialTimeEntry and
\* fillFactorialPopup: what the function gives its caller for an exception
ReturnFalse_Rethrow(thrown) == thrown

ReturnFalse(thrown) == "false"

\* return of handleFactorialTimeEntry to logWorkHours / logAnyMissingHours
Return_Retry(v) ==
    /\ handled' = v
    /\ pc' = "locate"

Return(v) ==
    /\ handled' = v
    /\ pc' = "logReturn"

\* logWorkHours / logAnyMissingHours up to the call of
\* handleFactorialTimeEntry: the attendance page is reached (it is the
\* current page, or page.goto succeeds) or the goto throws and false is
\* returned by the catch of the function; the popup dismissal has a catch of
\* its own and changes nothing that is modelled.
LogWorkHoursEnter(pages) ==
    /\ pc = "logWorkHours"
    /\ \E reached \in BOOLEAN :
         IF reached
         THEN /\ \E p \in pages : page' = p
              /\ pc' = "locate"
              /\ logged' = logged
         ELSE /\ page' = page
              /\ pc' = "report"
              /\ logged' = ReturnFalse(ThrownError)
    /\ calls' = Append(calls, IF cmd.name = "log-week"
                              THEN updatedEntries[Len(calls) + 1]
                              ELSE Entry)
    /\ UNCHANGED << setup, cli, successCount, sel, idx, targetRow,
                    clicks, buttons, form, writes, stale, handled >>

\* if (!targetRow) { return true }: no missing hours is a success
NothingToDo_Failure == "false"

NothingToDo == "true"

\* the result of the verification step
VerifyResult_FillResult(p, row, reloaded) == "true"

VerifyResult(p, row, reloaded) ==
    IF reloaded THEN "true"
    ELSE IF stillHasMissingHours(p[row]) THEN "false"
    ELSE "true"

\* one turn of the inner loop of the row location, or the step from one
\* selector to the next, or the end of the outer loop
LocateStep ==
    /\ pc = "locate"
    /\ LET list == QueryAll(page, missingHoursSelectors[sel])
       IN IF idx > Len(list)
          THEN IF sel = Len(missingHoursSelectors)
               THEN /\ Return(NothingToDo)
                    /\ UNCHANGED << sel, idx, targetRow >>
               ELSE /\ sel' = sel + 1
                    /\ idx' = 1
                    /\ UNCHANGED << pc, targetRow, handled >>
          ELSE IF IsMissingHoursText(page[list[idx]].el.text)
                  /\ ValidatedRow(page, list[idx]) # 0
               THEN /\ targetRow' = ValidatedRow(page, list[idx])
                    /\ pc' = "toggle"
                    /\ UNCHANGED << sel, idx, handled >>
               ELSE /\ idx' = idx + 1
                    /\ targetRow' = 0
                    /\ UNCHANGED << pc, sel, handled >>
    /\ UNCHANGED << setup, cli, calls, successCount, page, clicks, buttons,
                    form, writes, stale, logged >>

\* the click of the toggle of the target row, which makes the page show the
\* buttons of the expanded row; a click that times out throws
ClickToggle(addLists) ==
    /\ pc = "toggle"
    /\ \E clicked \in BOOLEAN :
         IF clicked
         THEN /\ clicks' = [clicks EXCEPT !.toggle = Append(@, targetRow)]
              /\ buttons' \in addLists
              /\ pc' = "add"
              /\ handled' = handled
         ELSE /\ clicks' = clicks
              /\ buttons' = buttons
              /\ Return(ReturnFalse(ThrownError))
    /\ UNCHANGED << setup, cli, calls, successCount, page, sel, idx,
                    targetRow, form, writes, stale, logged >>

\* the search for the add button and its click, which opens the popup with
\* its inputs and buttons; no button found throws, and so does the click of
\* a button that is not visible
ClickAdd(forms, applyLists) ==
    /\ pc = "add"
    /\ LET b == FindAddButton(buttons)
       IN IF b # 0 /\ buttons[b].visible
          THEN /\ clicks' = [clicks EXCEPT !.add = @ + 1]
               /\ form' \in forms
               /\ buttons' \in applyLists
               /\ pc' = "fill"
               /\ handled' = handled
          ELSE /\ clicks' = clicks
               /\ form' = form
               /\ buttons' = buttons
               /\ Return(ReturnFalse(ThrownError))
    /\ UNCHANGED << setup, cli, calls, successCount, page, sel, idx,
                    targetRow, writes, stale, logged >>

\* fillFactorialPopup up to the search for the submit button
FillPopup ==
    /\ pc = "fill"
    /\ LET r == FillTimes(SetWorkType(form), Entry)
       IN /\ form' = r.form
          /\ writes' = r.writes
          /\ IF r.threw
             THEN Return(ReturnFalse(ThrownError))
             ELSE pc' = "submit" /\ handled' = handled
    /\ UNCHANGED << setup, cli, calls, successCount, page, sel, idx,
                    targetRow, clicks, buttons, stale, logged >>

\* the search for the submit button and its click; the page answers by
\* showing the row as logged or not, and by reloading or not
SubmitPopup ==
    /\ pc = "submit"
    /\ LET b == FindApplyButton(buttons)
       IN IF b # 0 /\ buttons[b].visible
          THEN /\ clicks' = [clicks EXCEPT !.submit = @ + 1]
               /\ \E accepted \in BOOLEAN :
                    page' = IF accepted
                            THEN [page EXCEPT ![targetRow].el = LoggedElement]
                            ELSE page
               /\ stale' \in BOOLEAN
               /\ pc' = "verify"
               /\ handled' = handled
          ELSE /\ clicks' = clicks
               /\ page' = page
               /\ stale' = stale
               /\ Return(ReturnFalse(ThrownError))
    /\ UNCHANGED << setup, cli, calls, successCount, sel, idx, targetRow,
                    buttons, form, writes, logged >>

\* the re-read of the target row after fillFactorialPopup returned true
VerifySubmission ==
    /\ pc = "verify"
    /\ Return(VerifyResult(page, targetRow, stale))
    /\ UNCHANGED << setup, cli, calls, successCount, page, sel, idx,
                    targetRow, clicks, buttons, form, writes, stale, logged >>

\* logWorkHours returns true when the workflow did; otherwise it throws
\* 'Factorial workflow failed', then 'Could not log work hours ...' from the
\* inner catch, which its last catch turns into the result.
\* logAnyMissingHours returns the result of the workflow, and its catch
\* handles what the workflow throws
LogWorkHoursReturn ==
    /\ pc = "logReturn"
    /\ logged' = CASE handled = "true"       -> "true"
                   [] handled = ThrownError  -> ReturnFalse(handled)
                   [] cmd.name = "log-any"   -> handled
                   [] OTHER                  -> ReturnFalse(ThrownError)
    /\ pc' = "report"
    /\ UNCHANGED << setup, cli, calls, successCount, page, sel, idx,
                    targetRow, clicks, buttons, form, writes, stale, handled >>

\* if (success): whether the command takes the result for a success
ReportSucceeds_Always(result) == TRUE

ReportSucceeds(result) == result = "true"

\* if (success) { console.log(...) } else { process.exit(1) }; an exception
\* out of the call would go to the catch of the action
Report ==
    /\ pc = "report"
    /\ cmd.name # "log-week"
    /\ CASE logged = ThrownError   -> Throw(<<logged>>)
         [] ReportSucceeds(logged) -> pc' = "cleanup" /\ exitCode' = exitCode /\ error' = error
         [] OTHER                  -> error' = error /\ ProcessExit1
    /\ UNCHANGED << setup, env, headless, site, browser, attempts, navigationSuccess,
                    calls, successCount, track >>

\* log-week: the end of one turn of for (const entry of updatedEntries):
\* the result is counted, never thrown; the next turn calls logWorkHours
\* again, and the summary follows the last
LogWeekLoop ==
    /\ pc = "report"
    /\ cmd.name = "log-week"
    /\ IF logged = ThrownError
       THEN /\ Throw(<<logged>>)
            /\ UNCHANGED << successCount, track >>
       ELSE /\ error' = error
            /\ exitCode' = exitCode
            /\ successCount' = IF logged = "true" THEN successCount + 1
                               ELSE successCount
            /\ IF Len(calls) < WorkDays
               THEN /\ pc' = "logWorkHours"
                    /\ page' = <<>>
                    /\ sel' = 1
                    /\ idx' = 1
                    /\ targetRow' = 0
                    /\ clicks' = [toggle |-> <<>>, add |-> 0, submit |-> 0]
                    /\ buttons' = <<>>
                    /\ form' = <<>>
                    /\ writes' = <<>>
                    /\ stale' = FALSE
                    /\ handled' = "none"
                    /\ logged' = "none"
               ELSE /\ pc' = "cleanup"
                    /\ UNCHANGED track
    /\ UNCHANGED << setup, env, headless, site, browser, attempts,
                    navigationSuccess, calls >>

\* finally { await automation.cleanup() }, then the process ends
Cleanup ==
    /\ pc = "cleanup"
    /\ browser' = "closed"
    /\ pc' = "exited"
    /\ exitCode' = 0
    /\ UNCHANGED << setup, env, headless, error, site, attempts,
                    navigationSuccess, calls, successCount,
                    track >>

\* ------------------------------------------------------ the specifications
TimeInput == [type |-> "time", placeholder |-> <<>>, visible |-> TRUE, value |-> "empty"]

\* the fixtures of the specifications that vary another part of the page
SampleForms == { <<>>, <<TimeInput, TimeInput>> }

SamplePages ==
    { <<>>,
      << [tr |-> "data", el |-> [tag |-> "span", cls |-> TRUE, title |-> Minus8h,
                                 text |-> Minus8h]] >> }

SampleAddButtons == { <<>>, << Button("button", "AA~adir", FALSE, TRUE) >> }

SampleApplyButtons == { <<>>, << Button("button", "Aplicar", FALSE, TRUE) >> }

SampleCommands == { c \in Commands : c.date = Today /\ c.name \notin {"log-today", "login"} }

\* a login page whose form logs in, and one whose form is refused with an
\* error element shown
SampleSites ==
    { [email |-> TRUE, password |-> TRUE, button |-> TRUE, error |-> refused,
       pre  |-> [indicator |-> FALSE, url |-> "login"],
       post |-> [indicator |-> FALSE, url |-> IF refused THEN "login" ELSE "app"]] :
      refused \in BOOLEAN }

\* the steps of a command over the login pages, attendance pages, popups
\* and buttons given
Steps(sites, pages, addLists, forms, applyLists) ==
    \/ PreAction
    \/ ValidateConfig
    \/ Initialize
    \/ LoginLoop
    \/ LoginGoto
    \/ LoginForm(sites)
    \/ NavigateToTimeTracking
    \/ LogWorkHoursEnter(pages)
    \/ LocateStep
    \/ ClickToggle(addLists)
    \/ ClickAdd(forms, applyLists)
    \/ FillPopup
    \/ SubmitPopup
    \/ VerifySubmission
    \/ LogWorkHoursReturn
    \/ Report
    \/ Cleanup

NextWith(pages, addLists, forms, applyLists) ==
    Steps(SampleSites, pages, addLists, forms, applyLists)

\* every command but log-week, over every attendance page
Init == InitWith(Commands)

Next == NextWith(Pages, SampleAddButtons, SampleForms, SampleApplyButtons)

Spec == Init /\ [][Next]_vars

\* every popup form
InitFill == InitWith(SampleCommands)

NextFill == NextWith(SamplePages, SampleAddButtons, Forms, SampleApplyButtons)

SpecFill == InitFill /\ [][NextFill]_vars

\* every list of buttons
NextButtons == NextWith(SamplePages, AddButtonLists, SampleForms, ApplyButtonLists)

SpecButtons == InitFill /\ [][NextButtons]_vars

\* the pages of the -8h span with the cls class: in a data row, in a header
\* row and outside any row
LoopPages == UNION { [1..n -> {c \in Cells : c.el.cls}] : n \in 0..MaxRows }

NextLoop == NextWith(LoopPages, SampleAddButtons, SampleForms, SampleApplyButtons)

\* every environment, with and without --verbose
InitEnv == InitFrom(SampleCommands \cup VerboseCommands, Envs, SampleClocks)

NextSample ==
    NextWith(SamplePages, SampleAddButtons, SampleForms, SampleApplyButtons)

SpecEnv == InitEnv /\ [][NextSample]_vars

\* every login page
InitLogin ==
    InitFrom({ c \in Commands : c.name \in {"login", "log-any"} },
             { e \in SampleEnvs : validateConfig(config(e)) = <<>> }, SampleClocks)

NextLogin ==
    Steps(LoginPages, SamplePages, SampleAddButtons, SampleForms, SampleApplyButtons)

SpecLogin == InitLogin /\ [][NextLogin]_vars

\* log-week on every day, early, at noon and late, in three time zones
InitWeek ==
    InitFrom(WeekCommands \cup { c \in Commands : c.name = "log-any" },
             { e \in SampleEnvs : validateConfig(config(e)) = <<>> }, Clocks)

NextWeek ==
    \/ NextSample
    \/ LogWeekLoop

SpecWeek == InitWeek /\ [][NextWeek]_vars

\* every await returns or times out: a step that can be taken is taken
\* the debug command, in every environment
InitDebug == InitFrom(SampleCommands \cup DebugCommands, Envs, SampleClocks)

NextDebug == NextSample \/ ForceHeaded \/ DebugInspect

SpecDebug == InitDebug /\ [][NextDebug]_vars

FairSpec == InitFill /\ [][NextLoop]_vars /\ WF_vars(NextLoop)

\* ------------------------------------------------------------ the properties
NoClicks == [toggle |-> <<>>, add |-> 0, submit |-> 0]

\* The row location examines candidate (s, i), the element of row i matched
\* by selector s, in the order of s and then of i.  A candidate is valid when
\* its text has a missing-hours marker and its row is a TR with the toggle.
ValidCandidate(p, s, i) ==
    /\ Matches(missingHoursSelectors[s], p[i].el)
    /\ IsMissingHoursText(p[i].el.text)
    /\ p[i].tr = "data"

Earlier(s2, i2, s, i) == s2 < s \/ (s2 = s /\ i2 < i)

FirstValidRows(p) ==
    { i \in 1..Len(p) :
        \E s \in 1..Len(missingHoursSelectors) :
            /\ ValidCandidate(p, s, i)
            /\ \A s2 \in 1..Len(missingHoursSelectors), i2 \in 1..Len(p) :
                   Earlier(s2, i2, s, i) => ~ValidCandidate(p, s2, i2) }

\* C1: the row chosen as target is the row of the first valid candidate in
\* the order (selector, then document); a row without the toggle is never
\* chosen, and no target is chosen only when there is no valid candidate.
C1_RowLocation ==
    /\ pc = "toggle" => targetRow \in FirstValidRows(page)
    /\ targetRow # 0 => page[targetRow].tr = "data"
    /\ (handled = "true" /\ clicks = NoClicks) => FirstValidRows(page) = {}

\* a header row whose marker is matched first, and the data row chosen
C1_Witness ==
    /\ pc = "toggle"
    /\ Len(page) = 2
    /\ page[1].tr = "header"
    /\ page[1].el.text = Minus8h
    /\ page[2].el.text = Minus4h
    /\ targetRow = 2

\* C2: when no candidate yields a validated row, handleFactorialTimeEntry
\* returns true without a toggle, add or submit click and without a fill,
\* logWorkHours / logAnyMissingHours return true and the command exits 0.
C2_NothingToDo ==
    (handled # "none" /\ clicks.submit = 0 /\ FirstValidRows(page) = {}) =>
        /\ handled = "true"
        /\ clicks = NoClicks
        /\ form = <<>>
        /\ writes = <<>>
        /\ logged \in {"none", "true"}
        /\ pc = "exited" => exitCode = 0

\* a page whose only marked row is a header row, and the command exited 0
C2_Witness ==
    /\ pc = "exited"
    /\ exitCode = 0
    /\ logged = "true"
    /\ clicks = NoClicks
    /\ \E i \in 1..Len(page) :
         page[i].tr = "header" /\ IsMissingHoursText(page[i].el.text)

\* the verification step has run: the submit click was made and
\* handleFactorialTimeEntry has returned
Verified == clicks.submit = 1 /\ handled # "none"

\* C3 as stated: after the popup was filled and submitted,
\* handleFactorialTimeEntry returns true if the target row no longer shows a
\* missing-hours marker and false if it still does.
C3_AsStated ==
    (Verified /\ Len(writes) = 2) =>
        (handled = "false" <=> IsMissingHoursText(page[targetRow].el.text))

\* C3 as amended: it returns false exactly when the re-read of the row
\* succeeds and a span of the target row still has a marker text; it returns
\* true when no span has one, and also when the re-read throws.
C3_Verification ==
    Verified =>
        (handled = "false" <=>
            /\ ~stale
            /\ page[targetRow].el.tag = "span"
            /\ IsMissingHoursText(page[targetRow].el.text))

\* the marker stayed in a span of the target row and false was returned
C3_Witness ==
    /\ Verified
    /\ handled = "false"
    /\ ~stale
    /\ IsMissingHoursText(page[targetRow].el.text)

IsPrefix(a, b) == Len(a) <= Len(b) /\ a = SubSeq(b, 1, Len(a))

NoTimeInputFound ==
    /\ clicks.add = 1
    /\ pc # "fill"
    /\ Len(timeInputsOf(form)) < 2
    /\ Len(allInputsOf(form)) < 2
    /\ FirstVisible(form, startTimeSelectors, 1) = 0
    /\ FirstVisible(form, endTimeSelectors, 1) = 0

\* C5: when no time input is found by any of the three strategies,
\* fillFactorialPopup returns false and the submit button is not clicked.
C5_TimeInputsNotFound ==
    NoTimeInputFound =>
        /\ clicks.submit = 0
        /\ handled \in {"none", "false"}

\* no button of bs is an add affordance: none matches an add selector and
\* none is a button whose text reads the add label, in any case
NoAddAffordance(bs) ==
    \A i \in 1..Len(bs) :
        /\ \A k \in 1..Len(addButtonSelectors) : ~MatchesButton(addButtonSelectors[k], bs[i])
        /\ ~(bs[i].tag = "button" /\ Lower(bs[i].text) = Lower(addLabel))

\* no button of bs is a submit affordance
NoSubmitAffordance(bs) ==
    \A i \in 1..Len(bs) :
        /\ \A k \in 1..Len(applyButtonSelectors) :
               ~MatchesButton(applyButtonSelectors[k], bs[i])
        /\ ~(bs[i].tag = "button" /\ Lower(bs[i].text) = Lower(applyLabel))

\* the step of a search that found nothing: false is returned and nothing
\* is clicked, filled or submitted
ReturnsFalseUntouched ==
    /\ handled' = "false"
    /\ pc' = "logReturn"
    /\ clicks' = clicks
    /\ form' = form
    /\ writes' = writes

\* C6: when no add affordance is found after the toggle click,
\* handleFactorialTimeEntry returns false, no input is filled and no submit
\* click occurs; when no submit affordance is found, fillFactorialPopup
\* returns false; and a false of the workflow is the result of the call.
C6_AffordanceNotFound ==
    /\ [][ (pc = "add" /\ NoAddAffordance(buttons)) => ReturnsFalseUntouched ]_vars
    /\ [][ (pc = "submit" /\ NoSubmitAffordance(buttons)) => ReturnsFalseUntouched ]_vars
    /\ [](clicks.add = 0 => (form = <<>> /\ writes = <<>> /\ clicks.submit = 0))
    /\ []((handled = "false" /\ logged # "none") => logged = "false")

\* a popup that shows a button, but none to submit with: the workflow failed
C6_Witness ==
    /\ clicks.add = 1
    /\ clicks.submit = 0
    /\ buttons # <<>>
    /\ NoSubmitAffordance(buttons)
    /\ logged = "false"

\* C7: every call of login() ends (it returns, or it throws and the process
\* exits), and every call of logWorkHours() / logAnyMissingHours() ends with
\* a result.
C7_NoHang ==
    /\ (pc = "login") ~> (pc \in {"navigateToTimeTracking", "exited"})
    /\ (pc = "logWorkHours") ~> (logged # "none")

\* a run with three navigation attempts whose row location went through
\* the whole selector list, and a result
C7_Witness ==
    /\ attempts = maxAttempts
    /\ sel = Len(missingHoursSelectors)
    /\ Len(page) = MaxRows
    /\ logged # "none"

\* C8: log-custom with a --date that is not YYYY-MM-DD fails before a
\* browser is opened, and the process exits with a non-zero code.
C8_DateValidation ==
    (cmd.name = "log-custom" /\ cmd.date.fmt # "YYYY-MM-DD") =>
        /\ browser = "none"
        /\ pc = "exited" => exitCode # 0

\* C9: for log-custom --date D and log-today, the row whose editor is opened
\* and filled is the row of the day of D.
C9_TargetDate ==
    cmd.name \in {"log-custom", "log-today"} =>
        \A k \in 1..Len(clicks.toggle) : RowDate(clicks.toggle[k]) = cmd.date.day

\* C10: after a run of log-any that returned true, no data row with a
\* toggle shows a missing-hours marker.  Stated for the runs that filled
\* both times and whose target row was re-read by the verification.
C10_LogAnyComplete ==
    (cmd.name = "log-any" /\ logged = "true" /\ ~stale /\ Len(writes) = 2) =>
        \A i \in 1..Len(page) :
            page[i].tr = "data" => ~stillHasMissingHours(page[i])

\* the operation failed: an error was thrown to the command, or the result
\* of logWorkHours / logAnyMissingHours is false
OperationFailed == error # <<>> \/ logged = "false"

\* the operation succeeded: nothing was thrown and login() returned true
\* (login) or the result of the call is true (the logging commands)
OperationSucceeded ==
    /\ error = <<>>
    /\ IF cmd.name = "login"
       THEN site # <<>> /\ LoginResult(site[1]) = "true"
       ELSE logged = "true"

\* C11: login, log-today, log-custom and log-any end with exit code 1 when
\* the operation failed and with exit code 0 when it succeeded.
C11_ExitCodes ==
    (pc = "exited" /\ cmd.name \in {"login", "log-today", "log-custom", "log-any"}) =>
        /\ OperationFailed => exitCode = 1
        /\ OperationSucceeded => exitCode = 0
        /\ OperationFailed \/ OperationSucceeded

\* a false result of logWorkHours ended the process with code 1
C11_Witness ==
    /\ pc = "exited"
    /\ cmd.name = "log-custom"
    /\ error = <<>>
    /\ logged = "false"
    /\ exitCode = 1

\* C12: when the process has ended after initialize() launched a browser,
\* cleanup() was executed, on the success path and on every failure path.
C12_Teardown ==
    (pc = "exited" /\ headless # "none") => browser = "closed"

\* the rank of a statement in the order initialize, authenticate, locate
\* row, open editor, fill, submit, verify, cleanup
Stage(p) ==
    CASE p \in {"preAction", "validateConfig"} -> 0
      [] p = "initialize" -> 1
      [] p \in {"login", "loginGoto", "loginForm"} -> 2
      [] p = "navigateToTimeTracking" -> 3
      [] p = "logWorkHours" -> 4
      [] p = "locate" -> 5
      [] p = "toggle" -> 6
      [] p = "add" -> 7
      [] p = "fill" -> 8
      [] p = "submit" -> 9
      [] p = "verify" -> 10
      [] p = "logReturn" -> 11
      [] p = "report" -> 12
      [] p = "cleanup" -> 13
      [] p = "exited" -> 14

Authenticated == site # <<>> /\ LoginResult(site[1]) = "true"

LoginRefused ==
    /\ site # <<>>
    /\ site[1].email
    /\ site[1].password
    /\ ~isLoggedIn(site[1].post)

\* C14: when login() fails after the credentials were submitted and an
\* error element is on the page, the error thrown carries the text of that
\* element; the generic error is thrown only when there is none.
C14_LoginFailureText ==
    LoginRefused =>
        error = << IF site[1].error
                   THEN "throw: Login failed: Invalid credentials"
                   ELSE "throw: Login failed - please check credentials" >>

\* the page state of the isLoggedIn() call that decided login(): the page
\* as found when no email input is there, the page after the submit else
Decisive ==
    IF ~site[1].email THEN site[1].pre ELSE site[1].post

\* login() reached an isLoggedIn() call
Decided == site # <<>> /\ (site[1].email => site[1].password)

\* login() threw after the navigation: the command caught one of its errors
LoginThrew ==
    /\ error # <<>>
    /\ error[1] \in { "throw: no email input", "throw: no password input",
                      "throw: Login failed: Invalid credentials",
                      "throw: Login failed - please check credentials" }

\* C15 as stated: login() succeeds exactly when a logged-in marker is on the
\* page or the URL contains neither /login nor /signin.
C15_AsStated ==
    Decided =>
        (~LoginThrew <=>
            (Decisive.indicator \/ Decisive.url \notin {"login", "signin"}))

\* C15 as amended: login() succeeds exactly when a logged-in marker is on
\* the page, or the URL contains factorialhr.com and neither /login nor
\* /signin; a URL outside factorialhr.com without a marker is not logged in.
C15_LoginState ==
    Decided =>
        (~LoginThrew <=> (Decisive.indicator \/ Decisive.url = "app"))

\* login() failed on a page outside factorialhr.com that is no login page
C15_Witness ==
    /\ Decided
    /\ site[1].email
    /\ ~Decisive.indicator
    /\ Decisive.url = "other"
    /\ LoginThrew
    /\ pc = "exited"

\* the required variables that are unset or empty, each with the line of
\* the error that names it
MissingCredentials ==
    { v \in { <<env.FACTORIAL_EMAIL, "FACTORIAL_EMAIL is required">>,
              <<env.FACTORIAL_PASSWORD, "FACTORIAL_PASSWORD is required">> } :
        v[1] \in {"unset", ""} }

\* C16: with FACTORIAL_EMAIL or FACTORIAL_PASSWORD unset or empty,
\* validateConfig() throws an error that names each missing variable, no
\* browser is launched and the exit code is 1; with both set it does not throw.
C16_RequiredCredentials ==
    pc \notin {"preAction", "validateConfig"} =>
        IF MissingCredentials # {}
        THEN /\ pc = "exited"
             /\ exitCode = 1
             /\ browser = "none"
             /\ headless = "none"
             /\ error # <<>>
             /\ error[1] = "Configuration errors:"
             /\ \A v \in MissingCredentials : \E i \in 2..Len(error) : error[i] = v[2]
             /\ Len(error) = 1 + Cardinality(MissingCredentials)
        ELSE error = <<>> \/ error[1] # "Configuration errors:"

\* an empty email and an unset password: both are named
C16_Witness ==
    /\ env.FACTORIAL_EMAIL = ""
    /\ env.FACTORIAL_PASSWORD = "unset"
    /\ pc = "exited"
    /\ Len(error) = 3

\* C17: the start and end times log-any writes are WORK_START_TIME and
\* WORK_END_TIME when these are set, and 09:00 and 17:00 when they are unset
\* (stated for the environments that set no other work-hours variable).
C17_WorkHoursVariables ==
    (cmd.name = "log-any" /\ env.DEFAULT_START_TIME = "unset" /\ Len(writes) = 2) =>
        /\ writes[1][2] = OrDefault(env.WORK_START_TIME, "09:00")
        /\ writes[2][2] = OrDefault(env.WORK_END_TIME, "17:00")

\* C18: the browser is launched headless only when HEADLESS is "true"; it
\* is launched with a window when HEADLESS is unset.
C18_HeadlessDefault ==
    headless # "none" => (headless = "headless" <=> env.HEADLESS = "true")

\* the Monday of the week of local day d (a Sunday belongs to the week that
\* began six days earlier)
Monday(d) == d - ((getDay(d) + (DaysOfWeek - 1)) % DaysOfWeek)

\* C19: log-week calls logWorkHours for Monday to Friday of the week of
\* today, in that order, one call per day, with the times of the options.
C19_WeekDates ==
    cmd.name = "log-week" =>
        /\ Len(calls) <= WorkDays
        /\ pc \in {"cleanup", "exited"} /\ exitCode # 1 /\ error = <<>>
               => (Len(calls) = WorkDays \/ Stage(pc) < 4)
        /\ \A k \in 1..Len(calls) :
               /\ calls[k].date = [fmt |-> "YYYY-MM-DD", day |-> Monday(clock.day) + (k - 1)]
               /\ calls[k].startTime = OptionOr(cmd.startTime, cfg.defaultStartTime)
               /\ calls[k].endTime = OptionOr(cmd.endTime, cfg.defaultEndTime)

\* C20: with --verbose, the logger used by the action logs at level debug.
C20_Verbose ==
    (cmd.verbose /\ pc # "preAction") => loggerLevel = "debug"


\* --------------------------------------------------------------------- C21
\* the navigation of login() failed for good: the error of the last attempt
NavigationGaveUp ==
    error = <<"Failed to navigate to Factorial after 3 attempts">>

\* C21: login() makes at most 3 navigation attempts; after a failed first or
\* second attempt the only step login() can take is another attempt; the
\* login form is looked for only after an attempt succeeded; when the third
\* attempt fails too, login() throws the error that reports the 3 failed
\* attempts, and the login form was never looked for.
C21_BoundedRetry ==
    /\ [](attempts <= maxAttempts)
    /\ []((pc = "loginForm" \/ site # <<>>) => navigationSuccess)
    /\ [](NavigationGaveUp =>
            attempts = maxAttempts /\ ~navigationSuccess /\ site = <<>> /\ pc = "exited")
    /\ [][(pc = "loginGoto" /\ ~navigationSuccess') =>
            IF attempts < maxAttempts
            THEN pc' = "login" /\ error' = <<>>
            ELSE NavigationGaveUp' /\ pc' = "exited"]_vars
    /\ [][(pc = "login" /\ ~navigationSuccess) =>
            pc' = "loginGoto" /\ attempts' = attempts + 1]_vars

\* all three attempts were made and failed, and login() threw
C21_Witness ==
    NavigationGaveUp /\ attempts = maxAttempts /\ pc = "exited" /\ exitCode = 1


\* --------------------------------------------------------------------- C22
\* the two inputs of the strategy that applies first: the first two time
\* inputs, else the first two inputs, else none (the selectors are used)
PairOf(f) ==
    LET ti == timeInputsOf(f)
        ai == allInputsOf(f)
    IN IF Len(ti) >= 2 THEN <<ti[1], ti[2]>>
       ELSE IF Len(ai) >= 2 THEN <<ai[1], ai[2]>>
       ELSE <<>>

\* a click of the pair throws: one of the two inputs is not visible
PairThrows(f) ==
    PairOf(f) # <<>> /\ \E k \in 1..2 : ~f[PairOf(f)[k]].visible

\* input i is the first match of the first selector of the list that has a
\* visible first match
FirstVisibleMatch(f, words, i) ==
    /\ f[i].visible
    /\ \E w \in words :
         /\ Includes(f[i].placeholder, w)
         /\ \A j \in 1..(i - 1) : ~Includes(f[j].placeholder, w)

\* C22: a call of fillFactorialPopup writes times with one strategy only:
\* into the first two time inputs when there are two, otherwise into the
\* first two inputs when there are two, otherwise into the first visible
\* match of the start selectors and of the end selectors; no input outside
\* the strategy that applies first is written, and when a click of the first
\* or second strategy throws the call returns false, writes nothing by the
\* selectors and clicks no submit button.
C22_StrategyPrecedence ==
    /\ [][pc = "fill" =>
            LET pair == PairOf(form)
            IN IF pair # <<>>
               THEN /\ IsPrefix(writes', << <<pair[1], Entry.startTime>>,
                                            <<pair[2], Entry.endTime>> >>)
                    /\ IF PairThrows(form)
                       THEN pc' = "logReturn" /\ handled' = "false" /\ Len(writes') < 2
                       ELSE pc' = "submit" /\ Len(writes') = 2
               ELSE /\ pc' = "submit"
                    /\ \A k \in 1..Len(writes') :
                         \/ /\ writes'[k][2] = Entry.startTime
                            /\ FirstVisibleMatch(form, {<<"inicio">>, <<"start">>},
                                                 writes'[k][1])
                         \/ /\ writes'[k][2] = Entry.endTime
                            /\ FirstVisibleMatch(form, {<<"fin">>, <<"end">>},
                                                 writes'[k][1])]_vars
    /\ [](clicks.submit > 0 => ~PairThrows(form))

\* the second strategy filled the first two inputs of a popup with one time
\* input at most, and left alone a visible input that a start selector matches
C22_Witness ==
    /\ pc = "submit"
    /\ Len(timeInputsOf(form)) < 2
    /\ Len(writes) = 2
    /\ \E i \in 1..Len(form) :
         /\ i \notin {writes[1][1], writes[2][1]}
         /\ form[i].visible
         /\ Includes(form[i].placeholder, <<"inicio">>)
         /\ form[i].value = "empty"


\* --------------------------------------------------------------------- C23
\* C23: the debug command launches the browser in non-headless mode whatever
\* the value of HEADLESS in the environment of the process.
C23_DebugHeaded ==
    (cmd.name = "debug" /\ headless # "none") => headless = "headed"


\* --------------------------------------------------------------------- C24
\* the command took a !loginSuccess branch: the login command exited with 1
\* without an error caught, or another command threw 'Login failed'
LoginReturnedFalse ==
    \/ error = <<"Login failed">>
    \/ /\ cmd.name = "login"
       /\ site # <<>>
       /\ exitCode = 1
       /\ error = <<>>

\* C24: once login() has completed, it has either thrown one of its errors to
\* the catch of the command, which exits with 1, or returned true and the
\* command went on; no command ever takes its !loginSuccess branch.
C24_LoginNeverFalse ==
    /\ ~LoginReturnedFalse
    /\ site # <<>> =>
          IF LoginThrew
          THEN pc = "exited" /\ exitCode = 1 /\ calls = <<>>
          ELSE LoginResult(site[1]) = "true" /\ (pc = "exited" => error # <<>> \/ exitCode = 0 \/ calls # <<>>)

\* the credentials were refused and the login command caught the error
C24_Witness ==
    /\ cmd.name = "login"
    /\ LoginRefused
    /\ LoginThrew
    /\ exitCode = 1


\* --------------------------------------------------------------------- C25
\* a call of logWorkHours / logAnyMissingHours has ended
CallEnded == pc \in {"report", "cleanup", "exited"} /\ calls # <<>>

\* an exception was raised in the call before the verification: by the goto
\* of the pre-navigation, by a click, by the fill or by the submit step
RaisedBeforeVerify ==
    CallEnded /\ (handled = "none" \/ (targetRow # 0 /\ clicks.submit = 0))

\* the re-read of the target row threw in the verification
RaisedInVerify == CallEnded /\ clicks.submit = 1 /\ stale

\* no exception leaves the call: it ends with a result, and the command that
\* made a call has caught no error
NoThrow ==
    /\ handled \in {"none", "true", "false"}
    /\ logged \in {"none", "true", "false"}
    /\ calls # <<>> => error = <<>>
    /\ CallEnded => logged \in {"true", "false"}

====
